---------------------------- MODULE Spec2Model ----------------------------
(***************************************************************************)
(* Vehicle telemetry and alerting core of SBC-Core:                        *)
(*   VehicleDBManager (pages/db_manager.py)   the Persistence Store        *)
(*   AlertManager     (pages/vehicle_page.py) the Alert Evaluator          *)
(*   VehiclePage      (pages/vehicle_page.py) the Telemetry Coordinator    *)
(***************************************************************************)
EXTENDS Integers, Sequences, FiniteSets, TLC

VARIABLES
    conn,       \* VehicleDBManager.conn: [open, db (the connection's view), disk (committed)]
    page,       \* the fields of VehiclePage and of its AlertManager
    link,       \* obd.Async: the commands watched on self.connection and on replaced objects
    afterQueue, \* the callbacks queued with after(0, ...), oldest first
    timer,      \* the ids of the pending after(LOG_UPDATE_INTERVAL_MS, ...) callbacks
    cb,         \* the reading callback in flight: [pc, cmd, value, orphan, trip]
    pc,         \* where each connection thread is
    shown,      \* the page is the one the controller shows
    now,        \* time.time(), in seconds
    hist,       \* history: rules whose latest evaluation was true [ever, sinceReset]
    lastOp,     \* the most recent step: [op, arg, ret, err]
    returned,   \* history: vin -> [ids returned by add_or_get_vehicle, calls made (0, 1, 2 = more)]
    upsert,     \* the add_or_get_vehicle calls of concurrent callers: caller -> [pc, vin, ret]
    csvfile,    \* the rows of the file at export_trip_to_csv's output_path (none: no file)
    prune       \* the prune_old_data call the UI thread is in: [pc, ids (old_trip_ids)]

pageVars == <<page, link, afterQueue, timer, cb, pc, shown, hist>>

storeVars == <<conn, now, lastOp, returned>>

vars == <<conn, page, link, afterQueue, timer, cb, pc, shown, now, hist, lastOp, returned,
          upsert, csvfile, prune>>

(***************************************************************************)
(* Values                                                                  *)
(***************************************************************************)
\* Python None, SQL NULL; every row id and every timestamp is >= 1
None == 0
\* add_or_get_vehicle's return value on sqlite3.Error
ErrorId == -1
SecondsPerDay == 86400
DefaultDaysToKeep == 30
\* vin[-4:]
VinSuffixLen == 4

\* bound of the model: the rows the calls of one run insert
MaxNewRows == 1

\* str(x): the text sqlite stores for a value
Str(x) == <<"str", x>>

Max(S) == CHOOSE x \in S : \A y \in S : y <= x

\* vin[-4:] : the last four characters, the whole string when it is shorter
Last4(vin) == SubSeq(vin, Max({1, Len(vin) - VinSuffixLen + 1}), Len(vin))

\* f"Vehicle-{vin[-4:]}"
VehicleName(vin) == <<"Vehicle-">> \o Last4(vin)

(***************************************************************************)
(* The database file: five tables and sqlite_sequence (AUTOINCREMENT).     *)
(***************************************************************************)
EmptyTables ==
    [vehicles |-> {}, trips |-> {}, readings |-> {}, alerts |-> {}, alert_rules |-> {},
     seq |-> [vehicles |-> 0, trips |-> 0, readings |-> 0, alerts |-> 0]]

\* sqlite3.connect(db_path, check_same_thread=False) on a database file holding `tables`
Connect(tables) == [open |-> TRUE, db |-> tables, disk |-> tables]

\* self.conn.commit(): the pending changes of the connection become durable
Commit(c) == [c EXCEPT !.disk = c.db]

\* self.conn.close(): an open transaction is rolled back
close(c) == IF c.open THEN [c EXCEPT !.open = FALSE, !.db = c.disk] ELSE c

\* a statement raises sqlite3.Error: the connection is closed, or a storage fault hits it
Raises(c, fault, point) == ~c.open \/ fault = point

\* INSERT into an AUTOINCREMENT table: the row gets id seq+1
Insert(d, table, row) ==
    LET id == d.seq[table] + 1
    IN  [d EXCEPT ![table] = @ \cup {[row EXCEPT !.id = id]}, !.seq[table] = id]

add_or_get_vehicle_always_insert(c, vin, name, fault) ==
    IF Raises(c, fault, "execute") \/ \E v \in c.db.vehicles : v.vin = vin
    THEN [c |-> c, ret |-> ErrorId, err |-> TRUE]
    ELSE LET d == Insert(c.db, "vehicles", [id |-> None, vin |-> vin, name |-> name])
         IN  [c |-> Commit([c EXCEPT !.db = d]), ret |-> d.seq.vehicles, err |-> FALSE]

add_or_get_vehicle(c, vin, name, fault) ==
    LET rows == {v \in c.db.vehicles : v.vin = vin}
        d == Insert(c.db, "vehicles", [id |-> None, vin |-> vin, name |-> name])
    IN  IF Raises(c, fault, "execute")
        THEN [c |-> c, ret |-> ErrorId, err |-> TRUE]
        ELSE IF rows # {}
        THEN [c |-> c, ret |-> (CHOOSE v \in rows : TRUE).id, err |-> FALSE]
        ELSE IF fault = "commit"
        THEN [c |-> [c EXCEPT !.db = d], ret |-> ErrorId, err |-> TRUE]
        ELSE [c |-> Commit([c EXCEPT !.db = d]), ret |-> d.seq.vehicles, err |-> FALSE]

start_trip(c, vehicle_id, t, fault) ==
    LET d == Insert(c.db, "trips",
                    [id |-> None, vehicle_id |-> vehicle_id, start_time |-> t, end_time |-> None])
    IN  IF Raises(c, fault, "execute")
        THEN [c |-> c, ret |-> None, err |-> TRUE]
        ELSE IF fault = "commit"
        THEN [c |-> [c EXCEPT !.db = d], ret |-> None, err |-> TRUE]
        ELSE [c |-> Commit([c EXCEPT !.db = d]), ret |-> d.seq.trips, err |-> FALSE]

end_trip_every_row(c, trip_id, t, fault) ==
    LET d == [c.db EXCEPT !.trips = {[x EXCEPT !.end_time = t] : x \in @}]
    IN  IF Raises(c, fault, "execute")
        THEN [c |-> c, ret |-> None, err |-> TRUE]
        ELSE IF fault = "commit"
        THEN [c |-> [c EXCEPT !.db = d], ret |-> None, err |-> TRUE]
        ELSE [c |-> Commit([c EXCEPT !.db = d]), ret |-> None, err |-> FALSE]

end_trip(c, trip_id, t, fault) ==
    LET d == [c.db EXCEPT !.trips =
                 {IF x.id = trip_id THEN [x EXCEPT !.end_time = t] ELSE x : x \in @}]
    IN  IF Raises(c, fault, "execute")
        THEN [c |-> c, ret |-> None, err |-> TRUE]
        ELSE IF fault = "commit"
        THEN [c |-> [c EXCEPT !.db = d], ret |-> None, err |-> TRUE]
        ELSE [c |-> Commit([c EXCEPT !.db = d]), ret |-> None, err |-> FALSE]

\* trip_id is NOT NULL; foreign keys are not enforced (no PRAGMA foreign_keys)
log_reading(c, trip_id, command, value, unit, t, fault) ==
    LET d == Insert(c.db, "readings",
                    [id |-> None, trip_id |-> trip_id, timestamp |-> t,
                     command |-> command, value |-> Str(value), unit |-> unit])
    IN  IF Raises(c, fault, "execute") \/ trip_id = None
        THEN [c |-> c, ret |-> None, err |-> TRUE]
        ELSE IF fault = "commit"
        THEN [c |-> [c EXCEPT !.db = d], ret |-> None, err |-> TRUE]
        ELSE [c |-> Commit([c EXCEPT !.db = d]), ret |-> None, err |-> FALSE]

log_alert(c, trip_id, rule_id, triggered_value, t, fault) ==
    LET d == Insert(c.db, "alerts",
                    [id |-> None, trip_id |-> trip_id, rule_id |-> rule_id,
                     timestamp |-> t, triggered_value |-> triggered_value])
    IN  IF Raises(c, fault, "execute") \/ trip_id = None
        THEN [c |-> c, ret |-> None, err |-> TRUE]
        ELSE IF fault = "commit"
        THEN [c |-> [c EXCEPT !.db = d], ret |-> None, err |-> TRUE]
        ELSE [c |-> Commit([c EXCEPT !.db = d]), ret |-> None, err |-> FALSE]

CutoffTime_keep_boundary(days_to_keep, t) == t - (days_to_keep * SecondsPerDay) + 1

\* the cutoff of prune_old_data
CutoffTime(days_to_keep, t) == t - (days_to_keep * SecondsPerDay)

\* the statements of prune_old_data in order; a fault names the one that raises
prune_old_data(c, days_to_keep, t, fault) ==
    LET cutoff_time == CutoffTime(days_to_keep, t)
        old_trip_ids == {x.id : x \in {y \in c.db.trips : y.start_time < cutoff_time}}
        d1 == [c.db EXCEPT !.readings = {r \in @ : r.trip_id \notin old_trip_ids}]
        deleted_readings == Cardinality(c.db.readings) - Cardinality(d1.readings)
        d2 == [d1 EXCEPT !.alerts = {a \in @ : a.trip_id \notin old_trip_ids}]
        d3 == [d2 EXCEPT !.trips = {x \in @ : x.id \notin old_trip_ids}]
        deleted_trips == Cardinality(d2.trips) - Cardinality(d3.trips)
    IN  IF Raises(c, fault, "select")
        THEN [c |-> c, ret |-> <<0, 0>>, err |-> TRUE]
        ELSE IF old_trip_ids = {}
        THEN [c |-> c, ret |-> <<0, 0>>, err |-> FALSE]
        ELSE IF fault = "delete_readings"
        THEN [c |-> c, ret |-> <<0, 0>>, err |-> TRUE]
        ELSE IF fault = "delete_alerts"
        THEN [c |-> [c EXCEPT !.db = d1], ret |-> <<0, deleted_readings>>, err |-> TRUE]
        ELSE IF fault = "delete_trips"
        THEN [c |-> [c EXCEPT !.db = d2], ret |-> <<0, deleted_readings>>, err |-> TRUE]
        ELSE IF fault = "commit"
        THEN [c |-> [c EXCEPT !.db = d3], ret |-> <<deleted_trips, deleted_readings>>,
              err |-> TRUE]
        ELSE [c |-> Commit([c EXCEPT !.db = d3]), ret |-> <<deleted_trips, deleted_readings>>,
              err |-> (fault = "vacuum")]


(***************************************************************************)
(* Data of the model: vehicle identifiers, commands, readings, a database  *)
(* file left by earlier runs.                                              *)
(***************************************************************************)
VinA == <<1, 0, 0, 0, 1>>
VinB == <<2, 0, 0, 0, 1>>
VinC == <<3, 0, 0, 0, 2>>
Vins == {VinA, VinB, VinC}

\* SUPPORTED_COMMANDS: name -> unit
CommandUnit == [RPM |-> "RPM", SPEED |-> "KPH"]
Commands == DOMAIN CommandUnit

\* response.value.magnitude, per command
Magnitudes == [RPM |-> {2000, 3000, 4000}, SPEED |-> {3000}]

\* the start of the model's clock
Now0 == 400 * SecondsPerDay

\* alert_rules, authored outside this code: rules 1, 2 and 4 belong to vehicle 1
\* (4 is disabled), rule 3 to vehicle 2
AlertRuleRows ==
    {[id |-> 1, vehicle_id |-> 1, command |-> "RPM", condition |-> ">", value |-> 2000,
      severity |-> "WARNING", is_enabled |-> 1],
     [id |-> 2, vehicle_id |-> 1, command |-> "RPM", condition |-> "=", value |-> 4000,
      severity |-> "CRITICAL", is_enabled |-> 1],
     [id |-> 3, vehicle_id |-> 2, command |-> "RPM", condition |-> "<", value |-> 4000,
      severity |-> "CRITICAL", is_enabled |-> 1],
     [id |-> 4, vehicle_id |-> 1, command |-> "SPEED", condition |-> ">", value |-> 2000,
      severity |-> "WARNING", is_enabled |-> 0]}

\* a database file with two vehicles and no trips
FreshTables ==
    [EmptyTables EXCEPT
        !.vehicles = {[id |-> 1, vin |-> VinA, name |-> VehicleName(VinA)],
                      [id |-> 2, vin |-> VinC, name |-> VehicleName(VinC)]},
        !.alert_rules = AlertRuleRows,
        !.seq.vehicles = 2]

\* a finished trip of vehicle 1 that started `age` seconds before Now0, with one
\* reading and one alert event
OldTrip(id, age) ==
    [trip |-> [id |-> id, vehicle_id |-> 1, start_time |-> Now0 - age,
               end_time |-> Now0 - age + 1],
     reading |-> [id |-> id, trip_id |-> id, timestamp |-> Now0 - age, command |-> "RPM",
                  value |-> Str(4000), unit |-> "RPM"],
     alert |-> [id |-> id, trip_id |-> id, rule_id |-> 1, timestamp |-> Now0 - age,
                triggered_value |-> Str(<<4000, "RPM">>)]]

\* a database file with trips 40 days, exactly 30 days and 10 days old
UsedTables ==
    LET old == {OldTrip(1, 40 * SecondsPerDay), OldTrip(2, DefaultDaysToKeep * SecondsPerDay),
                OldTrip(3, 10 * SecondsPerDay)}
    IN  [FreshTables EXCEPT
            !.trips = {o.trip : o \in old},
            !.readings = {o.reading : o \in old},
            !.alerts = {o.alert : o \in old},
            !.seq.trips = 3, !.seq.readings = 3, !.seq.alerts = 3]

NoOp == [op |-> "init", arg |-> <<>>, ret |-> None, err |-> FALSE]

\* the threads that may call add_or_get_vehicle on the one connection
\* (check_same_thread=False), and a caller that is in no call
Callers == {"A", "B"}
NoCall == [pc |-> "idle", vin |-> <<>>, ret |-> None]

\* the UI thread is in no call of prune_old_data
NoPrune == [pc |-> "idle", ids |-> {}]

(***************************************************************************)
(* Reads of the Store made by the page                                     *)
(***************************************************************************)
Min(S) == CHOOSE x \in S : \A y \in S : x <= y

\* the rows of S as the sequence ordered by `less`, a set of pairs <<earlier, later>>
SortedBy(S, less) ==
    [i \in 1..Cardinality(S) |->
        CHOOSE x \in S : Cardinality({y \in S : <<y, x>> \in less}) = i - 1]

\* a < b for two strings written as tuples of digits
LexLess(a, b) ==
    \/ \E i \in 1..Min({Len(a), Len(b)}) : a[i] < b[i] /\ \A j \in 1..(i - 1) : a[j] = b[j]
    \/ Len(a) < Len(b) /\ \A j \in 1..Len(a) : a[j] = b[j]

\* ORDER BY name: every name is "Vehicle-" and a vin suffix; rows with one name come
\* in rowid order
VehicleLess(x, y) ==
    \/ LexLess(Tail(x.name), Tail(y.name))
    \/ x.name = y.name /\ x.id < y.id

get_all_vehicles_unguarded(c, fault) ==
    SortedBy(c.db.vehicles, {r \in c.db.vehicles \X c.db.vehicles : VehicleLess(r[1], r[2])})

get_all_vehicles(c, fault) ==
    IF Raises(c, fault, "execute") THEN <<>>
    ELSE SortedBy(c.db.vehicles, {r \in c.db.vehicles \X c.db.vehicles : VehicleLess(r[1], r[2])})

\* ORDER BY command: "RPM" < "SPEED"; rows with one command come in rowid order
CommandRank == [RPM |-> 1, SPEED |-> 2]

RuleLess(x, y) ==
    \/ CommandRank[x.command] < CommandRank[y.command]
    \/ x.command = y.command /\ x.id < y.id

get_alert_rules(c, vehicle_id, fault) ==
    IF Raises(c, fault, "execute") THEN <<>>
    ELSE LET enabled == {r \in c.db.alert_rules :
                             r.vehicle_id = vehicle_id /\ r.is_enabled = 1}
         IN  SortedBy(enabled, {r \in enabled \X enabled : RuleLess(r[1], r[2])})

\* LIMIT 200 of get_trip_readings
ReadingsLimit == 200

\* ORDER BY timestamp DESC; rows with one timestamp come in rowid order
NewerReading(x, y) ==
    \/ x.timestamp > y.timestamp
    \/ x.timestamp = y.timestamp /\ x.id < y.id

\* SELECT timestamp, command, value, unit
ReadingColumns(r) ==
    [timestamp |-> r.timestamp, command |-> r.command, value |-> r.value, unit |-> r.unit]

get_trip_readings(c, trip_id, fault) ==
    IF Raises(c, fault, "execute") THEN <<>>
    ELSE LET rows == {r \in c.db.readings : r.trip_id = trip_id}
             sorted == SortedBy(rows, {r \in rows \X rows : NewerReading(r[1], r[2])})
             n == IF Len(sorted) < ReadingsLimit THEN Len(sorted) ELSE ReadingsLimit
         IN  [i \in 1..n |-> ReadingColumns(sorted[i])]

\* Python's bool is an int: the values export_trip_to_csv returns
True == 1
False == 0

\* no file exists at output_path
NoFile == <<>>

\* writer.writerow(['timestamp', 'command', 'value', 'unit'])
CsvHeader == <<"timestamp", "command", "value", "unit">>

\* time.strftime('%Y-%m-%d %H:%M:%S', time.localtime(t)) for t in whole seconds
FormatTime(t) == <<"%Y-%m-%d %H:%M:%S", t>>

CsvRow(r) == <<FormatTime(r.timestamp), r.command, r.value, r.unit>>

\* ORDER BY timestamp; rows with one timestamp come in rowid order
OlderReading(x, y) ==
    \/ x.timestamp < y.timestamp
    \/ x.timestamp = y.timestamp /\ x.id < y.id

export_trip_to_csv_newest_first(c, trip_id, file, fault) ==
    LET found == {r \in c.db.readings : r.trip_id = trip_id}
        rows == SortedBy(found, {r \in found \X found : NewerReading(r[1], r[2])})
    IN  IF Raises(c, fault, "execute") THEN [ret |-> False, file |-> file, err |-> TRUE]
        ELSE IF rows = <<>> THEN [ret |-> False, file |-> file, err |-> FALSE]
        ELSE IF fault = "open" THEN [ret |-> False, file |-> file, err |-> TRUE]
        ELSE [ret |-> True, err |-> FALSE,
              file |-> <<CsvHeader>> \o [i \in 1..Len(rows) |-> CsvRow(rows[i])]]

\* fault "open": open(output_path, 'w') raises IOError
export_trip_to_csv(c, trip_id, file, fault) ==
    LET found == {r \in c.db.readings : r.trip_id = trip_id}
        rows == SortedBy(found, {r \in found \X found : OlderReading(r[1], r[2])})
    IN  IF Raises(c, fault, "execute") THEN [ret |-> False, file |-> file, err |-> TRUE]
        ELSE IF rows = <<>> THEN [ret |-> False, file |-> file, err |-> FALSE]
        ELSE IF fault = "open" THEN [ret |-> False, file |-> file, err |-> TRUE]
        ELSE [ret |-> True, err |-> FALSE,
              file |-> <<CsvHeader>> \o [i \in 1..Len(rows) |-> CsvRow(rows[i])]]

(***************************************************************************)
(* VehiclePage and its AlertManager.  A handler is an operator on a world  *)
(* w: p the page's fields (rules and active_alerts are the AlertManager's),*)
(* c the database connection, link the subscriptions of the obd.Async      *)
(* objects, q the callbacks queued with after(0, ...), timer the pending   *)
(* after(LOG_UPDATE_INTERVAL_MS, ...), cb the reading callback in flight   *)
(* (trip: check_value was entered with a trip being logged),               *)
(* g history kept for the claims, out what the handler showed or raised,   *)
(* err an exception that left the handler.                                 *)
(***************************************************************************)
NoConnection == "None"
\* a VIN response that is null or empty
NoVin == <<>>
NoJob == "None"
\* the ids after(LOG_UPDATE_INTERVAL_MS, ...) returns: one that names no pending callback
JobIds == {"after#1", "after#2", "after#3"}
NewJob(w) == CHOOSE job \in JobIds \ w.timer : TRUE
HiddenBanner == [shown |-> FALSE, text |-> <<>>, color |-> ""]
NoCallback == [pc |-> "idle", cmd |-> "", value |-> None, orphan |-> FALSE, trip |-> FALSE]

Emit(w, e) == [w EXCEPT !.out = Append(@, e)]

_update_ui_state(w) ==
    LET is_busy == w.p.is_connecting
        is_connected == w.p.is_connected
    IN  [w EXCEPT !.p.buttons =
            [scan_ports |-> ~(is_busy \/ is_connected),
             connect |-> ~(is_busy \/ is_connected \/ ~w.p.available_ports),
             disconnect |-> is_connected,
             vehicle_profile |-> ~(is_busy \/ is_connected),
             trip |-> ~(~is_connected \/ is_busy),
             export |-> w.p.is_logging_trip]]

hide_alert_banner_always(w) == [w EXCEPT !.p.alert_banner = HiddenBanner]

hide_alert_banner(w) ==
    IF w.p.active_alerts = {} THEN [w EXCEPT !.p.alert_banner = HiddenBanner] ELSE w

show_alert_banner(w, message, severity) ==
    [w EXCEPT !.p.alert_banner =
        [shown |-> TRUE, text |-> message,
         color |-> IF severity = "CRITICAL" THEN "ERROR_COLOR" ELSE "WARNING_COLOR"]]

reset_keep_active(w) == hide_alert_banner([w EXCEPT !.g.sinceReset = {}])

\* AlertManager.reset
reset(w) == hide_alert_banner([w EXCEPT !.p.active_alerts = {}, !.g.sinceReset = {}])

load_rules(w) ==
    IF w.p.current_vehicle_id # None
    THEN [w EXCEPT !.p.rules = get_alert_rules(w.c, w.p.current_vehicle_id, "none")]
    ELSE [w EXCEPT !.p.rules = <<>>]

on_vehicle_select(w, selection) ==
    LET found == {i \in 1..Len(w.p.vehicles) : w.p.vehicles[i].name = selection}
    IN  IF found # {}
        THEN load_rules([w EXCEPT !.p.current_vehicle_id = w.p.vehicles[Min(found)].id])
        ELSE w

load_vehicle_profiles(w) ==
    LET w1 == [w EXCEPT !.p.vehicles = get_all_vehicles(w.c, "none")]
    IN  IF w1.p.vehicles # <<>> THEN on_vehicle_select(w1, w1.p.vehicles[1].name) ELSE w1

\* after_cancel of an id that names no pending callback does nothing
after_cancel(w, job) == [w EXCEPT !.timer = @ \ {job}]

\* self.log_update_job = self.after(LOG_UPDATE_INTERVAL_MS, self._live_log_update)
schedule_log_update(w) ==
    LET job == NewJob(w) IN [w EXCEPT !.p.log_update_job = job, !.timer = @ \cup {job}]

_start_log_updater(w) ==
    schedule_log_update(IF w.p.log_update_job # NoJob
                        THEN after_cancel(w, w.p.log_update_job) ELSE w)

_stop_log_updater_no_cancel(w) ==
    IF w.p.log_update_job # NoJob
    THEN [w EXCEPT !.p.log_update_job = NoJob]
    ELSE w

_stop_log_updater(w) ==
    IF w.p.log_update_job # NoJob
    THEN [after_cancel(w, w.p.log_update_job) EXCEPT !.p.log_update_job = NoJob]
    ELSE w

\* update_log_display raises AttributeError on its first row: sqlite3.Row has no get()
update_log_display(w) ==
    IF ~w.p.is_logging_trip \/ w.p.current_trip_id = None THEN w
    ELSE IF get_trip_readings(w.c, w.p.current_trip_id, "none") # <<>>
    THEN [w EXCEPT !.err = TRUE]
    ELSE w

toggle_trip_logging_keep_open(w) ==
    IF w.p.current_vehicle_id = None THEN Emit(w, <<"showwarning", "No Vehicle">>)
    ELSE IF ~w.p.is_logging_trip
    THEN LET r == start_trip(w.c, w.p.current_vehicle_id, now, "none")
             w1 == update_log_display([w EXCEPT !.p.is_logging_trip = TRUE,
                                                !.p.current_trip_id = r.ret, !.c = r.c])
         IN  IF w1.err THEN w1 ELSE _update_ui_state(_start_log_updater(w1))
    ELSE _update_ui_state(reset(_stop_log_updater([w EXCEPT !.p.is_logging_trip = FALSE])))

toggle_trip_logging_any_vehicle(w) ==
    IF ~w.p.is_logging_trip
    THEN LET r == start_trip(w.c, w.p.current_vehicle_id, now, "none")
             w1 == update_log_display([w EXCEPT !.p.is_logging_trip = TRUE,
                                                !.p.current_trip_id = r.ret, !.c = r.c])
         IN  IF w1.err THEN w1 ELSE _update_ui_state(_start_log_updater(w1))
    ELSE LET w1 == _stop_log_updater([w EXCEPT !.p.is_logging_trip = FALSE])
             w2 == IF w1.p.current_trip_id # None
                   THEN [w1 EXCEPT !.c = end_trip(w1.c, w1.p.current_trip_id, now, "none").c]
                   ELSE w1
         IN  _update_ui_state(reset(w2))

toggle_trip_logging(w) ==
    IF w.p.current_vehicle_id = None THEN Emit(w, <<"showwarning", "No Vehicle">>)
    ELSE IF ~w.p.is_logging_trip
    THEN LET r == start_trip(w.c, w.p.current_vehicle_id, now, "none")
             w1 == update_log_display([w EXCEPT !.p.is_logging_trip = TRUE,
                                                !.p.current_trip_id = r.ret, !.c = r.c])
         IN  IF w1.err THEN w1 ELSE _update_ui_state(_start_log_updater(w1))
    ELSE LET w1 == _stop_log_updater([w EXCEPT !.p.is_logging_trip = FALSE])
             w2 == IF w1.p.current_trip_id # None
                   THEN [w1 EXCEPT !.c = end_trip(w1.c, w1.p.current_trip_id, now, "none").c]
                   ELSE w1
         IN  _update_ui_state(reset(w2))

scan_for_ports(w, ports) == _update_ui_state([w EXCEPT !.p.available_ports = ports])

\* the comparison of check_value: strict greater, strict less, equality
Triggered(rule, value) ==
    \/ rule.condition = ">" /\ value > rule.value
    \/ rule.condition = "<" /\ value < rule.value
    \/ rule.condition = "=" /\ value = rule.value

trigger_alert(w, rule, value, unit) ==
    LET r == log_alert(w.c, w.p.current_trip_id, rule.id, Str(<<value, unit>>), now, w.fault)
        w1 == show_alert_banner([w EXCEPT !.c = r.c], <<rule.command, value, unit>>,
                                rule.severity)
    IN  Emit(w1, <<"trigger_alert", rule.id>>)

clear_alert_silent(w, rule) == hide_alert_banner(w)

clear_alert(w, rule) == Emit(hide_alert_banner(w), <<"clear_alert", rule.id>>)

\* history: the rules whose latest evaluation was true, ever and since the last reset()
Evaluated(w, rule, is_triggered) ==
    IF is_triggered
    THEN [w EXCEPT !.g.ever = @ \cup {rule.id}, !.g.sinceReset = @ \cup {rule.id}]
    ELSE [w EXCEPT !.g.ever = @ \ {rule.id}, !.g.sinceReset = @ \ {rule.id}]

check_rule_level_triggered(w, rule, value, unit) ==
    LET is_triggered == Triggered(rule, value)
        rule_id == rule.id
        w0 == Evaluated(w, rule, is_triggered)
    IN  IF is_triggered
        THEN trigger_alert([w0 EXCEPT !.p.active_alerts = @ \cup {rule_id}], rule, value, unit)
        ELSE IF ~is_triggered /\ rule_id \in w.p.active_alerts
        THEN clear_alert([w0 EXCEPT !.p.active_alerts = @ \ {rule_id}], rule)
        ELSE w0

\* the body of check_value's loop for a rule of the command
check_rule(w, rule, value, unit) ==
    LET is_triggered == Triggered(rule, value)
        rule_id == rule.id
        w0 == Evaluated(w, rule, is_triggered)
    IN  IF is_triggered /\ rule_id \notin w.p.active_alerts
        THEN trigger_alert([w0 EXCEPT !.p.active_alerts = @ \cup {rule_id}], rule, value, unit)
        ELSE IF ~is_triggered /\ rule_id \in w.p.active_alerts
        THEN clear_alert([w0 EXCEPT !.p.active_alerts = @ \ {rule_id}], rule)
        ELSE w0

RECURSIVE check_rules(_, _, _, _)
\* for rule in self.rules: if rule['command'] == command_name: ...
check_rules(w, rules, command_name, value) ==
    IF rules = <<>> THEN w
    ELSE LET rule == Head(rules)
             w1 == IF rule.command = command_name
                   THEN check_rule(w, rule, value, CommandUnit[command_name])
                   ELSE w
         IN  check_rules(w1, Tail(rules), command_name, value)

\* check_value returns at once on a null response or when the trip flag is off
check_value_returns(w, response) == response = None \/ ~w.p.is_logging_trip

\* the reading callback up to its test of the trip flag
callback_begin(w, cmd_name, response, orphan) ==
    LET call == [pc |-> "log", cmd |-> cmd_name, value |-> response, orphan |-> orphan,
                 trip |-> FALSE]
    IN  IF response = None THEN w
        ELSE IF cmd_name \notin w.p.gauges THEN [w EXCEPT !.err = TRUE]
        ELSE IF w.p.is_logging_trip /\ w.p.current_trip_id # None THEN [w EXCEPT !.cb = call]
        ELSE IF check_value_returns(w, response) THEN w
        ELSE [w EXCEPT !.cb = [call EXCEPT !.pc = "eval"]]

callback_log_propagating(w) ==
    LET r == log_reading(w.c, w.p.current_trip_id, w.cb.cmd, w.cb.value,
                         CommandUnit[w.cb.cmd], now, w.fault)
        w1 == [w EXCEPT !.c = r.c]
    IN  IF r.err THEN [w1 EXCEPT !.cb = NoCallback, !.err = TRUE]
        ELSE IF check_value_returns(w1, w.cb.value)
        THEN [w1 EXCEPT !.cb = NoCallback]
        ELSE [w1 EXCEPT !.cb.pc = "eval", !.cb.trip = (w1.p.current_trip_id # None)]

\* log_reading, then check_value up to its loop
callback_log(w) ==
    LET r == log_reading(w.c, w.p.current_trip_id, w.cb.cmd, w.cb.value,
                         CommandUnit[w.cb.cmd], now, w.fault)
        w1 == [w EXCEPT !.c = r.c]
    IN  IF check_value_returns(w1, w.cb.value)
        THEN [w1 EXCEPT !.cb = NoCallback]
        ELSE [w1 EXCEPT !.cb.pc = "eval", !.cb.trip = (w1.p.current_trip_id # None)]

\* the loop of check_value
callback_eval(w) ==
    [check_rules(w, w.p.rules, w.cb.cmd, w.cb.value) EXCEPT !.cb = NoCallback]

\* the callback in flight runs to its end
callback_finish(w) ==
    IF w.cb.pc = "log"
    THEN LET w1 == callback_log(w) IN IF w1.cb.pc = "eval" THEN callback_eval(w1) ELSE w1
    ELSE IF w.cb.pc = "eval" THEN callback_eval(w)
    ELSE w

\* obd.Async.stop() waits for the callback the connection is running; close() ends
\* its subscriptions
stop_and_close(w) ==
    IF w.p.connection = "up"
    THEN LET w1 == IF ~w.cb.orphan THEN callback_finish(w) ELSE w
         IN  [w1 EXCEPT !.link.watching = {}]
    ELSE w

_clear_all_gauges(w) ==
    LET w1 == IF w.p.connection = "up" THEN [w EXCEPT !.link.watching = {}] ELSE w
    IN  [w1 EXCEPT !.p.gauges = {}]

disconnect_from_obd_keep_trip(w) ==
    LET w1 == _stop_log_updater(w)
        w3 == stop_and_close(w1)
        w4 == [w3 EXCEPT !.p.connection = NoConnection, !.p.is_connected = FALSE,
                         !.p.is_connecting = FALSE]
    IN  _update_ui_state(reset(_clear_all_gauges(w4)))

disconnect_from_obd(w) ==
    LET w1 == _stop_log_updater(w)
        w2 == IF w1.p.is_logging_trip THEN toggle_trip_logging(w1) ELSE w1
        w3 == stop_and_close(w2)
        w4 == [w3 EXCEPT !.p.connection = NoConnection, !.p.is_connected = FALSE,
                         !.p.is_connecting = FALSE]
    IN  IF w2.err THEN w2 ELSE _update_ui_state(reset(_clear_all_gauges(w4)))

on_hide(w) ==
    LET w1 == _stop_log_updater(w)
        w2 == IF w1.p.is_logging_trip THEN toggle_trip_logging(w1) ELSE w1
        w3 == disconnect_from_obd(w2)
    IN  IF w2.err THEN w2
        ELSE IF w3.err THEN w3
        ELSE [w3 EXCEPT !.c = close(w3.c)]

\* the port selected is valid exactly when the last scan found ports
connect_to_obd(w) ==
    IF w.p.is_connecting \/ w.p.is_connected THEN w
    ELSE IF ~w.p.available_ports THEN Emit(w, <<"showerror", "No valid port selected.">>)
    ELSE [_update_ui_state([w EXCEPT !.p.is_connecting = TRUE]) EXCEPT !.spawn = TRUE]

\* supports() is false for every command on a connection that is not connected
_create_dynamic_gauges(w, supported) ==
    IF w.p.connection = "up"
    THEN [w EXCEPT !.p.gauges = @ \cup supported, !.link.watching = @ \cup supported]
    ELSE w

\* vin is the value of the VIN response (NoVin: null or empty); self.connection is
\* None after a disconnect, and the query raises AttributeError
on_successful_connection(w, vin, supported) ==
    LET r == add_or_get_vehicle(w.c, vin, VehicleName(vin), "none")
        w1 == load_vehicle_profiles([w EXCEPT !.c = r.c])
        found == {i \in 1..Len(w1.p.vehicles) : w1.p.vehicles[i].id = r.ret}
        w2 == IF w.p.connection # "up" \/ vin = NoVin THEN w
              ELSE IF found # {} THEN on_vehicle_select(w1, w1.p.vehicles[Min(found)].name)
              ELSE w1
        w3 == _create_dynamic_gauges(w2, supported)
    IN  IF w.p.connection = NoConnection THEN [w EXCEPT !.err = TRUE]
        ELSE IF w3.p.current_vehicle_id # None THEN toggle_trip_logging(w3)
        ELSE w3

_live_log_update(w) ==
    LET w1 == update_log_display(w)
    IN  IF ~w.p.is_logging_trip THEN _stop_log_updater(w)
        ELSE IF w1.err THEN w1
        ELSE schedule_log_update(w1)

\* the number of rows inserted so far
Rows(d) == d.seq.vehicles + d.seq.trips + d.seq.readings + d.seq.alerts

\* the bound on a run: a call that would insert one row too many is not made
Bounded(c) == Rows(c.db) <= Rows(UsedTables) + MaxNewRows


(***************************************************************************)
(* The page as a state machine: the handlers of the UI thread (user input, *)
(* callbacks queued with after, the log timer), the connection threads and *)
(* the reading callbacks of the obd.Async worker.  Tk runs the callbacks   *)
(* queued with after(0, ...) before it handles later user input.           *)
(***************************************************************************)
\* threading.Thread(target=self._obd_connection_thread): two may run at a time
Threads == {"T1", "T2"}

\* what the vehicle answers to the VIN query, and the commands it supports
VinResponses == {NoVin, VinA, VinB, VinC}
SupportedSets == {{}, {"RPM"}, {"RPM", "SPEED"}}

\* a null response
NullResponse == None

\* bounds of the model: the rows one run of the page inserts, in the specification
\* of the whole page and in the one that drives the Alert Evaluator
MaxPageRows == 2
MaxAlertRows == 6
MaxSoloRows == 3
MaxFirstRunRows == 1
MaxHotPathRows == 4
MaxConnectRows == 2

\* bound of the model: the callbacks queued with after(0, ...) and not yet run
MaxAfterQueue == 2

\* an environment: the connection threads that may run, the answers of the vehicle,
\* and the rows a run may insert
PageEnv ==
    [threads |-> Threads, vins |-> {NoVin, VinC}, supported |-> {{"RPM"}},
     magnitudes |-> [RPM |-> {4000}, SPEED |-> {}], rows |-> MaxPageRows,
     faults |-> {"none"}]

AlertEnv ==
    [threads |-> {"T1"}, vins |-> {NoVin}, supported |-> {{"RPM"}},
     magnitudes |-> [RPM |-> Magnitudes.RPM, SPEED |-> {}], rows |-> MaxAlertRows,
     faults |-> {"none"}]

\* one connection attempt at a time, every answer of the vehicle
SoloEnv ==
    [threads |-> {"T1"}, vins |-> VinResponses, supported |-> SupportedSets,
     magnitudes |-> [RPM |-> {4000}, SPEED |-> {3000}], rows |-> MaxSoloRows,
     faults |-> {"none"}]

\* the first connections of an installation: the vehicle answers the VIN query or not
FirstRunEnv ==
    [threads |-> {"T1"}, vins |-> {NoVin, VinA}, supported |-> {{"RPM"}},
     magnitudes |-> [RPM |-> {4000}, SPEED |-> {}], rows |-> MaxFirstRunRows,
     faults |-> {"none"}]

\* readings while the statements and commits of log_reading and log_alert may fail
HotPathEnv ==
    [threads |-> {"T1"}, vins |-> {NoVin}, supported |-> {{"RPM"}},
     magnitudes |-> [RPM |-> {2000, 4000}, SPEED |-> {}], rows |-> MaxHotPathRows,
     faults |-> {"none", "execute", "commit"}]

\* connection attempts one at a time, with page-hide and Disconnect at any point
ConnectEnv ==
    [threads |-> {"T1"}, vins |-> {NoVin, VinC}, supported |-> {{"RPM"}},
     magnitudes |-> [RPM |-> {4000}, SPEED |-> {}], rows |-> MaxConnectRows,
     faults |-> {"none"}]

\* VehiclePage.__init__ before load_vehicle_profiles
BlankPage ==
    [connection |-> NoConnection, is_connected |-> FALSE, is_connecting |-> FALSE,
     is_logging_trip |-> FALSE, available_ports |-> FALSE, gauges |-> {},
     vehicles |-> <<>>, current_vehicle_id |-> None, current_trip_id |-> None,
     log_update_job |-> NoJob, rules |-> <<>>, active_alerts |-> {},
     alert_banner |-> HiddenBanner,
     buttons |-> [scan_ports |-> TRUE, connect |-> TRUE, disconnect |-> FALSE,
                  vehicle_profile |-> TRUE, trip |-> TRUE, export |-> TRUE]]

NoLink == [watching |-> {}, orphaned |-> {}]
NoHistory == [ever |-> {}, sinceReset |-> {}]

WorldOf(p, c, l, q, tm, b, g) ==
    [p |-> p, c |-> c, link |-> l, q |-> q, timer |-> tm, cb |-> b, g |-> g,
     out |-> <<>>, err |-> FALSE, spawn |-> FALSE, fault |-> "none"]

\* VehiclePage.__init__ on a database file holding `tables`
NewPage(tables) ==
    _update_ui_state(load_vehicle_profiles(
        WorldOf(BlankPage, Connect(tables), NoLink, <<>>, {}, NoCallback, NoHistory)))

World == WorldOf(page, conn, link, afterQueue, timer, cb, hist)

InitPage(tables) ==
    /\ conn = NewPage(tables).c
    /\ page = NewPage(tables).p
    /\ link = NoLink
    /\ afterQueue = <<>>
    /\ timer = {}
    /\ cb = NoCallback
    /\ hist = NoHistory
    /\ pc = [t \in Threads |-> "idle"]
    /\ shown = FALSE
    /\ now = Now0
    /\ returned = [v \in Vins |-> [ids |-> {}, calls |-> 0]]
    /\ upsert = [k \in Callers |-> NoCall]
    /\ csvfile = NoFile
    /\ prune = NoPrune

\* an untraced step of the page: ret is what a handler showed or raised, a sequence
PageNoOp == [NoOp EXCEPT !.ret = <<>>]

\* the steps lastOp keeps; after any other step of the page it is PageNoOp
TracedOps ==
    {"disconnect_from_obd", "on_hide", "finally", "check_value", "toggle_trip_logging",
     "on_successful_connection"}

\* a step that ends in world w
Do(op, arg, w) ==
    /\ Len(w.q) <= MaxAfterQueue
    /\ page' = w.p
    /\ conn' = w.c
    /\ link' = w.link
    /\ afterQueue' = w.q
    /\ timer' = w.timer
    /\ cb' = w.cb
    /\ hist' = w.g
    /\ lastOp' = IF op \in TracedOps
                 THEN [op |-> op, arg |-> arg, ret |-> w.out, err |-> w.err]
                 ELSE PageNoOp
    /\ UNCHANGED <<now, returned, upsert, csvfile, prune>>

\* the bound on a run: a step that would insert one row too many is not taken
PageBounded(E) == Rows(conn'.db) <= Rows(FreshTables) + E.rows

\* user input reaches a handler when no callback queued with after(0, ...) is waiting
UserInput == afterQueue = <<>>

\* the controller shows the page
OnShow ==
    /\ UserInput /\ ~shown
    /\ shown' = TRUE
    /\ \E ports \in BOOLEAN : Do("on_show", <<ports>>, scan_for_ports(World, ports))
    /\ UNCHANGED pc

\* the controller shows another page ("Back to Home")
OnHide(E) ==
    /\ UserInput /\ shown
    /\ shown' = FALSE
    /\ Do("on_hide", <<page.is_logging_trip>>, on_hide(World))
    /\ PageBounded(E)
    /\ UNCHANGED pc

ScanForPorts ==
    /\ UserInput /\ shown /\ page.buttons.scan_ports
    /\ \E ports \in BOOLEAN : Do("scan_for_ports", <<ports>>, scan_for_ports(World, ports))
    /\ UNCHANGED <<pc, shown>>

ConnectToObd(E) ==
    /\ UserInput /\ shown /\ page.buttons.connect
    /\ LET w == connect_to_obd(World)
           idle == {t \in E.threads : pc[t] = "idle"}
       IN  /\ Do("connect_to_obd", <<>>, w)
           /\ IF w.spawn
              THEN idle # {} /\ pc' = [pc EXCEPT ![CHOOSE t \in idle : TRUE] = "construct"]
              ELSE UNCHANGED pc
    /\ UNCHANGED shown

DisconnectFromObd(E) ==
    /\ UserInput /\ shown /\ page.buttons.disconnect
    /\ Do("disconnect_from_obd", <<page.is_logging_trip>>, disconnect_from_obd(World))
    /\ PageBounded(E)
    /\ UNCHANGED <<pc, shown>>

ToggleTripLogging(E) ==
    /\ UserInput /\ shown /\ page.buttons.trip
    /\ Do("toggle_trip_logging", <<page.is_logging_trip, timer # {}>>,
          toggle_trip_logging(World))
    /\ PageBounded(E)
    /\ UNCHANGED <<pc, shown>>

OnVehicleSelect ==
    /\ UserInput /\ shown /\ page.buttons.vehicle_profile
    /\ \E i \in 1..Len(page.vehicles) :
           Do("on_vehicle_select", <<page.vehicles[i].name>>,
              on_vehicle_select(World, page.vehicles[i].name))
    /\ UNCHANGED <<pc, shown>>

\* the UI thread runs the oldest callback queued with after(0, ...)
Dequeued == [World EXCEPT !.q = Tail(@)]

RunOnSuccessfulConnection(E) ==
    /\ afterQueue # <<>> /\ Head(afterQueue) = "on_successful_connection"
    /\ \E vin \in E.vins, supported \in E.supported :
           Do("on_successful_connection", <<vin, supported>>,
              on_successful_connection(Dequeued, vin, supported))
    /\ PageBounded(E)
    /\ UNCHANGED <<pc, shown>>

\* lambda: messagebox.showerror(..., f"Failed: {e}", ...): e is unbound once the
\* except block is left, and the lambda raises NameError
RunShowError ==
    /\ afterQueue # <<>> /\ Head(afterQueue) = "showerror"
    /\ Do("showerror", <<>>, [Dequeued EXCEPT !.err = TRUE])
    /\ UNCHANGED <<pc, shown>>

RunUpdateUiState ==
    /\ afterQueue # <<>> /\ Head(afterQueue) = "_update_ui_state"
    /\ Do("_update_ui_state", <<>>, _update_ui_state(Dequeued))
    /\ UNCHANGED <<pc, shown>>

\* the log timer fires
LiveLogUpdate ==
    /\ \E job \in timer :
          Do("_live_log_update", <<>>, _live_log_update([World EXCEPT !.timer = @ \ {job}]))
    /\ UNCHANGED <<pc, shown>>

\* _obd_connection_thread: self.connection = obd.Async(...).  An object it replaces
\* is never closed: its subscriptions go on delivering readings.
ConnectionConstruct(t) ==
    /\ pc[t] = "construct"
    /\ \E up \in BOOLEAN :
           LET w == [World EXCEPT
                        !.p.connection = IF up THEN "up" ELSE "down",
                        !.link.orphaned = IF page.connection = "up"
                                          THEN @ \cup link.watching ELSE @,
                        !.link.watching = {},
                        !.cb.orphan = @ \/ (cb.pc # "idle" /\ page.connection = "up")]
           IN  Do("obd.Async", <<up>>, w)
    /\ pc' = [pc EXCEPT ![t] = "start"]
    /\ UNCHANGED shown

\* start(), is_connected(), and then is_connected = True and after(0, ...), or the
\* except block
ConnectionStart(t) ==
    /\ pc[t] = "start"
    /\ IF page.connection = "up"
       THEN /\ Do("start", <<"connected">>,
                  [World EXCEPT !.p.is_connected = TRUE,
                                !.q = Append(@, "on_successful_connection")])
            /\ pc' = [pc EXCEPT ![t] = "connected"]
       ELSE /\ Do("start", <<"failed">>,
                  [World EXCEPT !.q = Append(@, "showerror"), !.err = TRUE])
            /\ pc' = [pc EXCEPT ![t] = "failed"]
    /\ UNCHANGED shown

\* the finally block
ConnectionFinally(t) ==
    /\ pc[t] \in {"connected", "failed"}
    /\ Do("finally", <<pc[t]>>,
          [World EXCEPT !.p.is_connecting = FALSE, !.q = Append(@, "_update_ui_state")])
    /\ pc' = [pc EXCEPT ![t] = "idle"]
    /\ UNCHANGED shown

\* the obd.Async worker of a connected object calls the callback of a watched command
Callback(E) ==
    /\ cb.pc = "idle"
    /\ \E cmd_name \in Commands, orphan \in BOOLEAN :
         /\ IF orphan THEN cmd_name \in link.orphaned
            ELSE page.connection = "up" /\ cmd_name \in link.watching
         /\ \E response \in {NullResponse} \cup E.magnitudes[cmd_name] :
               Do("callback", <<cmd_name, response>>,
                  callback_begin(World, cmd_name, response, orphan))
    /\ UNCHANGED <<pc, shown>>

CallbackLog(E) ==
    /\ cb.pc = "log"
    /\ \E fault \in E.faults :
           Do("log_reading", <<cb.cmd, cb.value>>, callback_log([World EXCEPT !.fault = fault]))
    /\ PageBounded(E)
    /\ UNCHANGED <<pc, shown>>

CallbackEval(E) ==
    /\ cb.pc = "eval"
    /\ \E fault \in E.faults :
           Do("check_value", <<cb.cmd, cb.value>>, callback_eval([World EXCEPT !.fault = fault]))
    /\ PageBounded(E)
    /\ UNCHANGED <<pc, shown>>

PageStep(E) ==
    \/ OnShow
    \/ OnHide(E)
    \/ ScanForPorts
    \/ ConnectToObd(E)
    \/ DisconnectFromObd(E)
    \/ ToggleTripLogging(E)
    \/ OnVehicleSelect
    \/ RunOnSuccessfulConnection(E)
    \/ RunShowError
    \/ RunUpdateUiState
    \/ LiveLogUpdate
    \/ \E t \in E.threads : ConnectionConstruct(t)
    \/ \E t \in E.threads : ConnectionStart(t)
    \/ \E t \in E.threads : ConnectionFinally(t)
    \/ Callback(E)
    \/ CallbackLog(E)
    \/ CallbackEval(E)

Init == InitPage(FreshTables) /\ lastOp = PageNoOp

Next == PageStep(PageEnv)

Spec == Init /\ [][Next]_vars

\* the page while the user stays on it with one vehicle: connections, trips, readings
AlertStep(E) ==
    \/ OnShow
    \/ ConnectToObd(E)
    \/ DisconnectFromObd(E)
    \/ ToggleTripLogging(E)
    \/ RunOnSuccessfulConnection(E)
    \/ RunShowError
    \/ RunUpdateUiState
    \/ \E t \in E.threads : ConnectionConstruct(t)
    \/ \E t \in E.threads : ConnectionStart(t)
    \/ \E t \in E.threads : ConnectionFinally(t)
    \/ Callback(E)
    \/ CallbackLog(E)
    \/ CallbackEval(E)
    \/ OnVehicleSelect

NextAlert == AlertStep(AlertEnv)

SpecAlert == Init /\ [][NextAlert]_vars

\* the whole page with one connection attempt at a time
NextSolo == PageStep(SoloEnv)

SpecSolo == Init /\ [][NextSolo]_vars

\* the page with one vehicle on a store whose hot-path writes may fail
NextHotPath == AlertStep(HotPathEnv)

SpecHotPath == Init /\ [][NextHotPath]_vars

\* the whole page with a connection thread that keeps running once started: the
\* thread is a daemon thread of the process, obd.Async(...) returns within its timeout
\* and start() does not block
NextConnect == PageStep(ConnectEnv)

ThreadRuns(t) == ConnectionConstruct(t) \/ ConnectionStart(t) \/ ConnectionFinally(t)

SpecConnect ==
    Init /\ [][NextConnect]_vars /\ \A t \in ConnectEnv.threads : WF_vars(ThreadRuns(t))

\* the whole page on a database file that holds no vehicle profile yet
InitFirstRun == InitPage(EmptyTables) /\ lastOp = PageNoOp

NextFirstRun == PageStep(FirstRunEnv)

SpecFirstRun == InitFirstRun /\ [][NextFirstRun]_vars

(***************************************************************************)
(* The Store driven through its public methods.  F is the set of storage   *)
(* faults a call may meet: {"none"} for a healthy store, "execute" for a   *)
(* statement that raises sqlite3.Error, and for prune_old_data the         *)
(* statement that raises.  V holds the vins add_or_get_vehicle is called   *)
(* with.                                                                   *)
(***************************************************************************)
\* ids a call may name: every id given out so far, and the next one (absent)
TripIds == 1..(conn.db.seq.trips + 1)
VehicleIds == 1..(conn.db.seq.vehicles + 1)

InitStore == InitPage(UsedTables) /\ lastOp = NoOp

Call(op, arg, r) ==
    /\ conn' = r.c
    /\ lastOp' = [op |-> op, arg |-> arg, ret |-> r.ret, err |-> r.err]
    /\ UNCHANGED <<pageVars, upsert, csvfile, prune>>

AddOrGetVehicle(F, V) ==
    \E vin \in V, f \in F :
      \E other \in {vin, VinC} :
        LET r == add_or_get_vehicle(conn, vin, VehicleName(other), f)
        IN  /\ Bounded(r.c)
            /\ Call("add_or_get_vehicle", <<vin>>, r)
            /\ returned' = [returned EXCEPT ![vin] = [ids |-> @.ids \cup {r.ret},
                                                      calls |-> IF @.calls = 0 THEN 1 ELSE 2]]
            /\ UNCHANGED now

StartTrip(F) ==
    \E vehicle_id \in VehicleIds, f \in F :
        LET r == start_trip(conn, vehicle_id, now, f)
        IN  /\ Bounded(r.c)
            /\ Call("start_trip", <<vehicle_id>>, r)
            /\ UNCHANGED <<now, returned>>

EndTrip(F) ==
    \E trip_id \in TripIds, f \in F :
        /\ Call("end_trip", <<trip_id>>, end_trip(conn, trip_id, now, f))
        /\ UNCHANGED <<now, returned>>

LogReading(F) ==
    \E trip_id \in {None} \cup TripIds, command \in {"RPM"}, value \in {4000},
       f \in F :
        LET r == log_reading(conn, trip_id, command, value, CommandUnit[command], now, f)
        IN  /\ Bounded(r.c)
            /\ Call("log_reading", <<trip_id, command, value>>, r)
            /\ UNCHANGED <<now, returned>>

LogAlert(F) ==
    \E trip_id \in {None} \cup TripIds, rule \in {x \in AlertRuleRows : x.id = 1}, value \in {4000},
       f \in F :
        LET r == log_alert(conn, trip_id, rule.id, Str(<<value, CommandUnit[rule.command]>>),
                           now, f)
        IN  /\ Bounded(r.c)
            /\ Call("log_alert", <<trip_id, rule.id, value>>, r)
            /\ UNCHANGED <<now, returned>>

PruneFaults ==
    {"none", "select", "delete_readings", "delete_alerts", "delete_trips", "commit", "vacuum"}

PruneOldData(F) ==
    \E days_to_keep \in {DefaultDaysToKeep, 0}, f \in F :
        /\ Call("prune_old_data", <<days_to_keep>>, prune_old_data(conn, days_to_keep, now, f))
        /\ UNCHANGED <<now, returned>>

StoreStep(F, PF, V) ==
    \/ AddOrGetVehicle(F, V)
    \/ StartTrip(F)
    \/ EndTrip(F)
    \/ LogReading(F)
    \/ LogAlert(F)
    \/ PruneOldData(PF)

\* VehicleDBManager.close
Close ==
    /\ conn.open
    /\ Call("close", <<>>, [c |-> close(conn), ret |-> None, err |-> FALSE])
    /\ UNCHANGED <<now, returned>>

\* the outcome of a read: the store as it was, the number of rows returned, and
\* whether the read caught a sqlite3.Error
ReadResult(rows, f) == [c |-> conn, ret |-> Len(rows), err |-> Raises(conn, f, "execute")]

GetAllVehicles(F) ==
    \E f \in F :
        /\ Call("get_all_vehicles", <<>>, ReadResult(get_all_vehicles(conn, f), f))
        /\ UNCHANGED <<now, returned>>

GetAlertRules(F) ==
    \E vehicle_id \in VehicleIds, f \in F :
        /\ Call("get_alert_rules", <<vehicle_id>>,
                ReadResult(get_alert_rules(conn, vehicle_id, f), f))
        /\ UNCHANGED <<now, returned>>

GetTripReadings(F) ==
    \E trip_id \in TripIds, f \in F :
        /\ Call("get_trip_readings", <<trip_id>>,
                ReadResult(get_trip_readings(conn, trip_id, f), f))
        /\ UNCHANGED <<now, returned>>

ReadOps == {"get_all_vehicles", "get_alert_rules", "get_trip_readings"}

NextStore == StoreStep({"none"}, {"none"}, Vins)

SpecStore == InitStore /\ [][NextStore]_vars

\* prune_old_data meeting a storage error at any of its statements, among the other
\* calls on a healthy store
NextStoreFault == StoreStep({"none"}, PruneFaults, {VinB})

SpecStoreFault == InitStore /\ [][NextStoreFault]_vars

\* the reads of the Store among its writes: a read may meet a storage error, and the
\* connection may be closed, after which every statement raises
NextRead ==
    \/ StoreStep({"none"}, {"none"}, {VinB})
    \/ GetAllVehicles({"none", "execute"})
    \/ GetAlertRules({"none", "execute"})
    \/ GetTripReadings({"none", "execute"})
    \/ Close

SpecRead == InitStore /\ [][NextRead]_vars

\* bound of the model: how far the system clock moves from Now0, either way
MaxClockDrift == 1

\* time.time() is the system clock: it advances, and it is lower than before when the
\* clock has been set back
Tick ==
    /\ \E t \in {now - 1, now + 1} :
           /\ t \in (Now0 - MaxClockDrift)..(Now0 + MaxClockDrift)
           /\ now' = t
    /\ lastOp' = NoOp
    /\ UNCHANGED <<conn, pageVars, returned, upsert, csvfile, prune>>

ExportTrip(F) ==
    \E trip_id \in TripIds, f \in F :
        LET r == export_trip_to_csv(conn, trip_id, csvfile, f)
        IN  /\ csvfile' = r.file
            /\ lastOp' = [op |-> "export_trip_to_csv", arg |-> <<trip_id>>, ret |-> r.ret,
                          err |-> r.err]
            /\ UNCHANGED <<conn, pageVars, now, returned, upsert, prune>>

\* trips and their readings on a running clock, with exports of the trips
NextClock ==
    \/ StartTrip({"none"})
    \/ EndTrip({"none"})
    \/ LogReading({"none"})
    \/ Tick
    \/ ExportTrip({"none"})

\* the database file once prune_old_data(20) has run on it: the 10-day trip is left
PrunedTables == prune_old_data(Connect(UsedTables), 20, Now0, "none").c.db

InitClock == InitPage(PrunedTables) /\ lastOp = NoOp

SpecClock == InitClock /\ [][NextClock]_vars

(***************************************************************************)
(* add_or_get_vehicle statement by statement, called by two threads on the *)
(* one connection: a thread may be switched out between its statements.    *)
(***************************************************************************)
\* bound of the model: the vehicles rows the callers of one run insert
MaxUpsertRows == 2

\* a vin of the store, and two vins that are new to it
VinD == <<4, 0, 0, 0, 3>>
UpsertVins == {VinA, VinB, VinD}

UpsertStep(k, c, call) ==
    /\ conn' = c
    /\ upsert' = [upsert EXCEPT ![k] = call]
    /\ lastOp' = NoOp
    /\ UNCHANGED <<pageVars, now, returned, csvfile, prune>>

\* cursor.execute("SELECT id FROM vehicles WHERE vin = ?"); row = cursor.fetchone();
\* if row: return row['id']
UpsertSelect(k) ==
    /\ upsert[k].pc = "idle"
    /\ \E vin \in UpsertVins :
          LET rows == {v \in conn.db.vehicles : v.vin = vin}
          IN  IF rows # {}
              THEN UpsertStep(k, conn, [pc |-> "done", vin |-> vin,
                                        ret |-> (CHOOSE v \in rows : TRUE).id])
              ELSE UpsertStep(k, conn, [pc |-> "insert", vin |-> vin, ret |-> None])

\* cursor.execute("INSERT INTO vehicles (vin, name) VALUES (?, ?)"): vin is UNIQUE, and
\* the sqlite3.IntegrityError is caught by except sqlite3.Error: return -1
UpsertInsert(k) ==
    /\ upsert[k].pc = "insert"
    /\ LET vin == upsert[k].vin
           d == Insert(conn.db, "vehicles",
                       [id |-> None, vin |-> vin, name |-> VehicleName(vin)])
       IN  IF \E v \in conn.db.vehicles : v.vin = vin
           THEN UpsertStep(k, conn, [upsert[k] EXCEPT !.pc = "done", !.ret = ErrorId])
           ELSE /\ Rows(d) <= Rows(UsedTables) + MaxUpsertRows
                /\ UpsertStep(k, [conn EXCEPT !.db = d],
                              [upsert[k] EXCEPT !.pc = "commit", !.ret = d.seq.vehicles])

\* self.conn.commit(); return cursor.lastrowid
UpsertCommit(k) ==
    /\ upsert[k].pc = "commit"
    /\ UpsertStep(k, Commit(conn), [upsert[k] EXCEPT !.pc = "done"])

\* the caller has its result and may call again
UpsertReturned(k) ==
    /\ upsert[k].pc = "done"
    /\ UpsertStep(k, conn, NoCall)

NextUpsert ==
    \E k \in Callers : UpsertSelect(k) \/ UpsertInsert(k) \/ UpsertCommit(k) \/ UpsertReturned(k)

SpecUpsert == InitStore /\ [][NextUpsert]_vars

(***************************************************************************)
(* prune_old_data statement by statement on the UI thread, while the      *)
(* obd.Async worker calls log_reading on the one connection                *)
(* (check_same_thread=False): commit() makes durable every pending change  *)
(* of the connection, whichever thread made it.                            *)
(***************************************************************************)
PruneStep(c, call) ==
    /\ conn' = c
    /\ prune' = call
    /\ lastOp' = NoOp
    /\ UNCHANGED <<pageVars, now, returned, upsert, csvfile>>

\* cursor.execute("SELECT id FROM trips WHERE start_time < ?"); if old_trip_ids: ...
PruneSelect ==
    /\ prune.pc = "idle"
    /\ \E days_to_keep \in {DefaultDaysToKeep, 0} :
          LET cutoff_time == CutoffTime(days_to_keep, now)
              old_trip_ids == {x.id : x \in {y \in conn.db.trips : y.start_time < cutoff_time}}
          IN  IF old_trip_ids # {}
              THEN PruneStep(conn, [pc |-> "delete_readings", ids |-> old_trip_ids])
              ELSE PruneStep(conn, NoPrune)

\* cursor.execute("DELETE FROM readings WHERE trip_id IN (...)")
PruneDeleteReadings ==
    /\ prune.pc = "delete_readings"
    /\ PruneStep([conn EXCEPT !.db.readings = {r \in @ : r.trip_id \notin prune.ids}],
                 [prune EXCEPT !.pc = "delete_alerts"])

\* cursor.execute("DELETE FROM alerts WHERE trip_id IN (...)")
PruneDeleteAlerts ==
    /\ prune.pc = "delete_alerts"
    /\ PruneStep([conn EXCEPT !.db.alerts = {a \in @ : a.trip_id \notin prune.ids}],
                 [prune EXCEPT !.pc = "delete_trips"])

\* cursor.execute("DELETE FROM trips WHERE id IN (...)")
PruneDeleteTrips ==
    /\ prune.pc = "delete_trips"
    /\ PruneStep([conn EXCEPT !.db.trips = {x \in @ : x.id \notin prune.ids}],
                 [prune EXCEPT !.pc = "commit"])

\* self.conn.commit(); VACUUM; return deleted_trips, deleted_readings
PruneCommit ==
    /\ prune.pc = "commit"
    /\ PruneStep(Commit(conn), NoPrune)

\* the reading callback of the obd.Async worker calls log_reading at any point of the
\* UI thread's prune_old_data
NextPrune ==
    \/ PruneSelect
    \/ PruneDeleteReadings
    \/ PruneDeleteAlerts
    \/ PruneDeleteTrips
    \/ PruneCommit
    \/ LogReading({"none"})

SpecPrune == InitStore /\ [][NextPrune]_vars

(***************************************************************************)
(* Claims about the Alert Evaluator and the Coordinator                    *)
(***************************************************************************)
\* a trip is being logged: the trip flag is on and current_trip_id names the trip
TripLogged == page.is_logging_trip /\ page.current_trip_id # None

\* a step of check_value's loop, taken by the reading callback
Evaluates == cb.pc = "eval" /\ lastOp'.op = "check_value"

\* the rules check_value evaluates in this step
EvaluatedRules == {page.rules[i] : i \in {j \in 1..Len(page.rules) : page.rules[j].command = cb.cmd}}

Occurrences(s, e) == Cardinality({i \in 1..Len(s) : s[i] = e})

NewAlerts(rule_id) == {a \in conn'.disk.alerts \ conn.disk.alerts : a.rule_id = rule_id}

\* C1: with a trip being logged, an evaluation raises an alert for a rule (one
\* alert-raised event, one AlertEvent persisted on the current trip, the rule active
\* afterwards) exactly when the rule's condition holds for the sample and the rule is
\* not already active; a sample that leaves the rule's state unchanged emits no
\* event for the rule and persists no AlertEvent.
C1_RaisedOncePerTransition ==
    [][(Evaluates /\ TripLogged) =>
          \A r \in EvaluatedRules :
              LET triggered == Triggered(r, cb.value)
                  active == r.id \in page.active_alerts
                  raisedEvents == Occurrences(lastOp'.ret, <<"trigger_alert", r.id>>)
                  clearedEvents == Occurrences(lastOp'.ret, <<"clear_alert", r.id>>)
              IN  /\ (triggered /\ ~active) =>
                        /\ raisedEvents = 1
                        /\ Cardinality(NewAlerts(r.id)) = 1
                        /\ \A a \in NewAlerts(r.id) : a.trip_id = page.current_trip_id
                        /\ r.id \in page'.active_alerts
                  /\ ~(triggered /\ ~active) => raisedEvents = 0 /\ NewAlerts(r.id) = {}
                  /\ (triggered = active) =>
                        /\ clearedEvents = 0
                        /\ (r.id \in page'.active_alerts) = active]_vars

\* rule 1 has been raised a second time on one trip, after it was cleared
C1_Witness ==
    /\ lastOp.op = "check_value"
    /\ Occurrences(lastOp.ret, <<"trigger_alert", 1>>) = 1
    /\ TripLogged
    /\ Cardinality({a \in conn.disk.alerts :
                       a.rule_id = 1 /\ a.trip_id = page.current_trip_id}) = 2

\* C2: an evaluation entered while no trip is being logged changes nothing: it emits
\* no event, persists no AlertEvent and leaves the active set as it was.
C2_NoOpWithoutTrip ==
    [][(Evaluates /\ ~cb.trip) =>
          /\ lastOp'.ret = <<>>
          /\ conn'.db.alerts = conn.db.alerts
          /\ page'.active_alerts = page.active_alerts]_vars

\* C3: with a trip being logged, a rule that is active and evaluates false on a sample
\* of its command leaves the active set, and one alert-cleared event is emitted for it.
C3_ClearedWhenFalse ==
    [][(Evaluates /\ TripLogged) =>
          \A r \in EvaluatedRules :
              (r.id \in page.active_alerts /\ ~Triggered(r, cb.value)) =>
                  /\ r.id \notin page'.active_alerts
                  /\ Occurrences(lastOp'.ret, <<"clear_alert", r.id>>) = 1
                  /\ Occurrences(lastOp'.ret, <<"trigger_alert", r.id>>) = 0]_vars

\* rule 2 has just been cleared while rule 1 stays active
C3_Witness ==
    /\ lastOp.op = "check_value"
    /\ lastOp.ret = <<<<"clear_alert", 2>>>>
    /\ page.active_alerts = {1}
    /\ TripLogged

\* C4 as stated: a rule is active exactly when its latest evaluation was true.
C4_ActiveIffLatestTrue == page.active_alerts = hist.ever

\* C4, amended: a rule is active exactly when its latest evaluation since the last
\* reset() (trip end, disconnect) was true.
C4_ActiveIffLatestTrueSinceReset == page.active_alerts = hist.sinceReset

\* a rule of the second trip is active after the reset that ended the first trip
\* emptied the active set
C4_Witness ==
    /\ page.active_alerts # {}
    /\ TripLogged
    /\ \E x \in conn.db.trips : x.id # page.current_trip_id /\ x.end_time # None
    /\ \E a \in conn.db.alerts : a.trip_id # page.current_trip_id

\* C5: the active set holds only ids of the rules loaded for the selected vehicle.
C5_ActiveSubsetOfLoaded ==
    page.active_alerts \subseteq {page.rules[i].id : i \in 1..Len(page.rules)}

OpenTrips(d) == {x \in d.trips : x.end_time = None}

\* C6: a disconnect issued while the trip flag is on leaves the flag off and no trip
\* of this run open in the Store.
C6_DisconnectEndsTrip ==
    [][(lastOp'.op \in {"disconnect_from_obd", "on_hide"} /\ lastOp'.arg = <<TRUE>>) =>
          /\ ~page'.is_logging_trip
          /\ OpenTrips(conn'.disk) = {}
          /\ OpenTrips(conn'.db) = {}]_vars

\* Disconnect has just ended the trip that was being logged
C6_Witness ==
    /\ lastOp.op = "disconnect_from_obd"
    /\ lastOp.arg = <<TRUE>>
    /\ page.current_trip_id # None
    /\ \E x \in conn.disk.trips : x.id = page.current_trip_id /\ x.end_time # None

\* C7: when a connection attempt that failed ends, the Coordinator is neither
\* connecting nor connected and no trip is open.
C7_FailedConnectDisconnected ==
    [][(lastOp'.op = "finally" /\ lastOp'.arg = <<"failed">>) =>
          /\ ~page'.is_connected
          /\ ~page'.is_connecting
          /\ ~page'.is_logging_trip
          /\ OpenTrips(conn'.db) = {}]_vars

\* C15: while logging is off no log-view refresh is pending, so none fires before
\* logging is turned on again.
C15_NoRefreshWhileOff == ~page.is_logging_trip => timer = {}

\* the trip button has just turned logging off while a refresh was pending
C15_Witness ==
    /\ lastOp.op = "toggle_trip_logging"
    /\ lastOp.arg = <<TRUE, TRUE>>
    /\ ~page.is_logging_trip
    /\ timer = {}

\* on_successful_connection runs on a connection that is up
Connected == page.connection = "up" /\ lastOp'.op = "on_successful_connection"

\* C16: after on_successful_connection on a connection whose VIN query answers v, the
\* selected vehicle is the vehicles row whose vin is v.
C16_SelectsReportedVehicle ==
    [][(Connected /\ lastOp'.arg[1] # NoVin) =>
          \E v \in conn'.db.vehicles :
              v.vin = lastOp'.arg[1] /\ page'.current_vehicle_id = v.id]_vars

\* C17: after on_successful_connection on a connection that supports the commands S,
\* exactly the commands of S are watched and have a gauge, and if a vehicle is selected
\* the page is connected and logging a trip of that vehicle that is open in the Store.
C17_SubscribesAndStartsTrip ==
    [][Connected =>
          /\ link'.watching = lastOp'.arg[2]
          /\ page'.gauges = lastOp'.arg[2]
          /\ page'.current_vehicle_id # None =>
                /\ page'.is_connected
                /\ page'.is_logging_trip
                /\ \E x \in conn'.disk.trips :
                      /\ x.id = page'.current_trip_id
                      /\ x.vehicle_id = page'.current_vehicle_id
                      /\ x.end_time = None]_vars

\* C18: when disconnect_from_obd has run (from Disconnect or from on_hide), the page
\* holds no connection, no obd.Async object of the page has a watched command left, no
\* gauge is left, the active set is empty and the page is neither connected nor
\* connecting.
C18_DisconnectCleansUp ==
    [][lastOp'.op \in {"disconnect_from_obd", "on_hide"} =>
          /\ page'.connection = NoConnection
          /\ link'.watching = {}
          /\ link'.orphaned = {}
          /\ page'.gauges = {}
          /\ page'.active_alerts = {}
          /\ ~page'.is_connected
          /\ ~page'.is_connecting]_vars

\* a step of a reading callback that began while no trip was being logged: its first
\* step, or check_value's loop entered without a trip
CallbackWithoutTrip ==
    \/ cb.pc = "idle" /\ cb'.pc # "idle" /\ ~TripLogged
    \/ Evaluates /\ ~cb.trip

\* C19: a reading callback that begins while no trip is being logged changes neither
\* the Store nor the Alert Evaluator's rules and active set.
C19_CallbackIdleWithoutTrip ==
    [][CallbackWithoutTrip =>
          /\ conn' = conn
          /\ page'.rules = page.rules
          /\ page'.active_alerts = page.active_alerts]_vars

\* C20: toggle_trip_logging with no vehicle selected leaves the logging flag, the
\* current trip id, the refresh timer and the Store as they were.
C20_ToggleWithoutVehicle ==
    [][(lastOp'.op = "toggle_trip_logging" /\ page.current_vehicle_id = None) =>
          /\ page'.is_logging_trip = page.is_logging_trip
          /\ page'.current_trip_id = page.current_trip_id
          /\ page'.log_update_job = page.log_update_job
          /\ timer' = timer
          /\ conn' = conn]_vars

\* the trip button was pressed while connected with no vehicle selected
C20_Witness ==
    /\ lastOp.op = "toggle_trip_logging"
    /\ lastOp.ret = <<<<"showwarning", "No Vehicle">>>>
    /\ page.current_vehicle_id = None
    /\ page.is_connected
    /\ ~page.is_logging_trip

C22_RefreshPendingWhileLogging == page.is_logging_trip => timer # {}

\* the callback's step from its call of log_reading to check_value's loop
LogsReading == cb.pc = "log" /\ cb'.pc # "log" /\ lastOp'.op = NoOp.op

\* C23: a storage failure inside log_reading or log_alert does not reach the reading
\* callback: the callback goes on as it does without the failure (check_value runs
\* after log_reading, no exception leaves check_value), and the page's state after
\* the step is the state the same step leaves when the Store call succeeds.
C23_HotPathFailureSuppressed ==
    [][/\ LogsReading =>
              /\ cb' = callback_log(World).cb
              /\ page' = page
       /\ Evaluates =>
              /\ ~lastOp'.err
              /\ lastOp'.ret = callback_eval(World).out
              /\ page' = callback_eval(World).p]_vars

\* log_reading failed at its commit (the row is pending, not durable) and then
\* log_alert failed at its INSERT: rule 1 is raised with no alert event stored
C23_Witness ==
    /\ lastOp.op = "check_value"
    /\ TripLogged /\ conn.open
    /\ conn.db.readings # conn.disk.readings
    /\ 1 \in page.active_alerts
    /\ conn.db.alerts = {}

\* a step of a worker thread: a connection thread past its start, or the obd.Async
\* worker running check_value's loop in a reading callback
WorkerStep ==
    \/ \E t \in Threads : pc[t] # "idle" /\ pc'[t] # pc[t]
    \/ Evaluates

\* a step that calls a method of self.connection the claim names as blocking:
\* obd.Async(...) and start() in _obd_connection_thread, query() in
\* on_successful_connection, stop() and close() in disconnect_from_obd
DeviceCall ==
    \/ \E t \in Threads : pc[t] \in {"construct", "start"} /\ pc'[t] # pc[t]
    \/ lastOp'.op = "on_successful_connection" /\ page.connection # NoConnection
    \/ lastOp'.op \in {"disconnect_from_obd", "on_hide"} /\ page.connection # NoConnection

\* C28: no blocking call on the connection (open/start, query, stop, close) is made
\* on the UI thread: every step that makes one is a step of a worker thread.
C28_DeviceCallsOffUiThread == [][DeviceCall => WorkerStep]_vars

\* C29: the Alert Evaluator's rule snapshot is never changed while a trip is being
\* logged.
C29_RulesFrozenDuringTrip == [][TripLogged => page'.rules = page.rules]_vars

\* a step that ends a trip (the trip flag goes off) or disconnects
EndsTripOrDisconnects ==
    \/ page.is_logging_trip /\ ~page'.is_logging_trip
    \/ lastOp'.op \in {"disconnect_from_obd", "on_hide"}

\* C30: every trip end and every disconnect runs reset(): whatever the active set held,
\* it is empty afterwards and the alert banner is hidden.
C30_ResetOnTripEndAndDisconnect ==
    [][EndsTripOrDisconnects =>
          (page'.active_alerts = {} /\ ~page'.alert_banner.shown)]_vars

\* the trip button has just ended the only trip of the run while rules were active
C30_Witness ==
    /\ lastOp.op = "toggle_trip_logging"
    /\ lastOp.arg[1] = TRUE
    /\ Cardinality(conn.db.trips) = 1
    /\ hist.ever = {1, 2}
    /\ page.active_alerts = {}
    /\ ~page.alert_banner.shown

\* C31: each vehicle has at most one open trip (end_time NULL) in the Store, in the
\* connection's view and committed.
C31_OneOpenTripPerVehicle ==
    \A d \in {conn.db, conn.disk} :
        \A x, y \in OpenTrips(d) : x.vehicle_id = y.vehicle_id => x = y

\* the second trip of vehicle 1 is being logged after its first trip was ended
C31_Witness ==
    /\ TripLogged
    /\ \E x, y \in conn.disk.trips :
          /\ x.vehicle_id = 1 /\ y.vehicle_id = 1
          /\ x.end_time # None
          /\ y.end_time = None /\ y.id = page.current_trip_id

\* C33: the page is in exactly one of Disconnected, Connecting, Connected in every
\* reachable state: is_connecting and is_connected are never both true.
C33_OneConnectionState == ~(page.is_connecting /\ page.is_connected)

\* C34: whenever the trip flag is on, current_trip_id names a trips row of the Store
\* whose end_time is NULL.
C34_LoggingHasOpenTrip ==
    page.is_logging_trip =>
        \E x \in conn.db.trips : x.id = page.current_trip_id /\ x.end_time = None

\* C35: no reading and no alert event is inserted for a trip whose end_time has been
\* set: every row a step adds to readings or alerts names no ended trip.
C35_NoRowsAfterTripEnd ==
    [][LET ended == {x.id : x \in {y \in conn.db.trips : y.end_time # None}}
       IN  /\ \A r \in conn'.db.readings \ conn.db.readings : r.trip_id \notin ended
           /\ \A a \in conn'.db.alerts \ conn.db.alerts : a.trip_id \notin ended]_vars

\* C36: once the trip flag is off and no reading callback is in flight, the active
\* set is empty.
C36_ActiveEmptyAfterTrip ==
    (~page.is_logging_trip /\ cb.pc = "idle") => page.active_alerts = {}

\* C37: the alert banner is shown exactly when the active set is not empty.
C37_BannerIffActive == page.alert_banner.shown <=> page.active_alerts # {}

\* an evaluation has just cleared rule 2 while rule 1 stays active: the banner is shown
C37_Witness ==
    /\ lastOp.op = "check_value"
    /\ Occurrences(lastOp.ret, <<"clear_alert", 2>>) = 1
    /\ page.active_alerts = {1}
    /\ page.alert_banner.shown

\* a step that turns the trip flag on
StartsTrip == ~page.is_logging_trip /\ page'.is_logging_trip

\* C38: no trip is started on a closed database: every step that turns the trip flag
\* on, also after the page was hidden and shown again, finds the connection open and
\* creates the trips row that current_trip_id names.
C38_TripStartsOnOpenStore ==
    [][StartsTrip =>
          /\ conn.open
          /\ \E x \in conn'.disk.trips \ conn.disk.trips : x.id = page'.current_trip_id]_vars

\* a step that takes the page out of Connecting
LeavesConnecting == page.is_connecting /\ ~page'.is_connecting

\* C39: when the page leaves Connecting it is Connected if the step is the end of a
\* connection attempt that succeeded, and Disconnected otherwise (the attempt failed
\* or timed out, or the user disconnected).
C39_LeavesConnectingWithOutcome ==
    [][LeavesConnecting =>
          IF lastOp'.op = "finally" /\ lastOp'.arg = <<"connected">>
          THEN page'.is_connected
          ELSE ~page'.is_connected]_vars

\* C39, the termination half alone: with a connection thread that keeps running,
\* whenever is_connecting is true it is false at some later point.
C39_EventuallyLeavesConnecting == page.is_connecting ~> ~page.is_connecting

\* C13: no step of a worker thread writes is_connected, is_connecting, current_trip_id
\* or the alert active set.
C13_StateWrittenOnUiThread ==
    [][WorkerStep =>
          /\ page'.is_connected = page.is_connected
          /\ page'.is_connecting = page.is_connecting
          /\ page'.current_trip_id = page.current_trip_id
          /\ page'.active_alerts = page.active_alerts]_vars

\* C14: no step of a worker thread changes the gauges, the alert banner or the state
\* of the buttons.
C14_ViewTouchedOnUiThread ==
    [][WorkerStep =>
          /\ page'.gauges = page.gauges
          /\ page'.alert_banner = page.alert_banner
          /\ page'.buttons = page.buttons]_vars

(***************************************************************************)
(* Claims about the Store                                                  *)
(***************************************************************************)
TripIdsIn(d) == {x.id : x \in d.trips}

\* C11: with two callers of add_or_get_vehicle interleaved, no vin has two vehicles
\* rows, and every caller that has its result for a vin has the id of the row with
\* that vin.
C11_UpsertAtomic ==
    /\ \A v, w \in conn.db.vehicles : v.vin = w.vin => v = w
    /\ \A k \in Callers :
          upsert[k].pc = "done" =>
              \E v \in conn.db.vehicles : v.vin = upsert[k].vin /\ v.id = upsert[k].ret

\* C8: prune_old_data is all-or-nothing in what becomes durable, also when a storage
\* error stops it after some of its deletes: no step leaves the committed store with
\* readings or alert events of a trip deleted while the trip row remains, nor with the
\* trip row deleted while those readings or alert events remain.
C8_PruneAllOrNothing ==
    [][\A x \in conn.disk.trips :
          LET rs == {r \in conn.disk.readings : r.trip_id = x.id}
              as == {a \in conn.disk.alerts : a.trip_id = x.id}
          IN  IF x.id \in TripIdsIn(conn'.disk)
              THEN rs \subseteq conn'.disk.readings /\ as \subseteq conn'.disk.alerts
              ELSE rs \cap conn'.disk.readings = {} /\ as \cap conn'.disk.alerts = {}]_vars

\* C24: end_trip with a trip id that no trips row has (never given out, or pruned)
\* raises nothing, reports no storage error and leaves every trips row as it was, in
\* the connection's view and on disk.
C24_EndAbsentTripNoOp ==
    [][(lastOp'.op = "end_trip" /\ lastOp'.arg[1] \notin TripIdsIn(conn.db)) =>
          /\ ~lastOp'.err
          /\ lastOp'.ret = None
          /\ conn'.db.trips = conn.db.trips
          /\ conn'.disk.trips = conn.disk.trips]_vars

\* end_trip has just been called with the id of a pruned trip while another trip is open
C24_Witness ==
    /\ lastOp.op = "end_trip"
    /\ lastOp.arg = <<1>>
    /\ 1 \notin TripIdsIn(conn.db)
    /\ \E x \in conn.db.trips : x.end_time = None

\* C25: a read of the Store (get_all_vehicles, get_alert_rules, get_trip_readings)
\* that meets a storage error returns the empty sequence and changes nothing.
C25_ReadsEmptyOnError ==
    [][(lastOp'.op \in ReadOps /\ lastOp'.err) => (lastOp'.ret = 0 /\ conn' = conn)]_vars

\* get_all_vehicles has just met a storage error on an open store that holds vehicles
C25_Witness ==
    /\ lastOp.op = "get_all_vehicles"
    /\ lastOp.err
    /\ lastOp.ret = 0
    /\ conn.open
    /\ conn.db.vehicles # {}

\* C26: export_trip_to_csv of a trip with no readings returns False and writes no
\* file; of a trip with N >= 1 readings it returns True and the file holds N+1 rows:
\* the header, then one row per reading of the trip, timestamps ascending.
C26_ExportRows ==
    [][lastOp'.op = "export_trip_to_csv" =>
          LET found == {r \in conn.db.readings : r.trip_id = lastOp'.arg[1]}
              N == Cardinality(found)
          IN  IF N = 0
              THEN lastOp'.ret = False /\ csvfile' = csvfile
              ELSE /\ lastOp'.ret = True
                   /\ Len(csvfile') = N + 1
                   /\ csvfile'[1] = CsvHeader
                   /\ \A i \in 2..(N + 1) :
                          Cardinality({j \in 2..(N + 1) : csvfile'[j] = csvfile'[i]})
                              = Cardinality({r \in found : CsvRow(r) = csvfile'[i]})
                   /\ \A i, j \in 2..(N + 1) :
                          i < j => csvfile'[i][1][2] <= csvfile'[j][1][2]]_vars

\* trip 3, with a reading ten days old and one logged in this run, has been exported
C26_Witness ==
    /\ lastOp.op = "export_trip_to_csv"
    /\ lastOp.arg = <<3>>
    /\ lastOp.ret = True
    /\ Len(csvfile) = 3
    /\ csvfile[2][1] # csvfile[3][1]

\* C27: end_trip on the id start_trip returned leaves that trip's row with end_time
\* set and end_time >= start_time.
C27_EndNotBeforeStart ==
    [][(lastOp'.op = "end_trip" /\ lastOp'.arg[1] \in TripIdsIn(conn.db)) =>
          \E x \in conn'.db.trips :
              /\ x.id = lastOp'.arg[1]
              /\ x.end_time # None
              /\ x.end_time >= x.start_time]_vars

\* C32: log_reading commits only its own write: the step of a log_reading call leaves
\* the committed trips and alert events as they were and removes no committed reading,
\* so that no committed state holds part of the deletes of a prune_old_data in progress
\* on the other thread (readings gone while their trip row remains).
C32_LogReadingCommitsOwnWrite ==
    [][lastOp'.op = "log_reading" =>
          /\ conn'.disk.trips = conn.disk.trips
          /\ conn'.disk.alerts = conn.disk.alerts
          /\ conn.disk.readings \subseteq conn'.disk.readings]_vars

\* C9: a prune_old_data(days) that meets no storage error deletes exactly the trips
\* whose start_time is older than now - days*86400 with all their readings and alert
\* events, leaves every other row intact, makes that durable and returns the counts.
C9_PruneExact ==
    [][(lastOp'.op = "prune_old_data" /\ ~lastOp'.err) =>
          LET days == lastOp'.arg[1]
              old == {x \in conn.db.trips : x.start_time < now - days * 86400}
              oldIds == {x.id : x \in old}
              oldReadings == {r \in conn.db.readings : r.trip_id \in oldIds}
              oldAlerts == {a \in conn.db.alerts : a.trip_id \in oldIds}
          IN  /\ conn'.db.trips = conn.db.trips \ old
              /\ conn'.db.readings = conn.db.readings \ oldReadings
              /\ conn'.db.alerts = conn.db.alerts \ oldAlerts
              /\ conn'.db.vehicles = conn.db.vehicles
              /\ conn'.db.alert_rules = conn.db.alert_rules
              /\ conn'.disk = conn'.db
              /\ lastOp'.ret = <<Cardinality(old), Cardinality(oldReadings)>>]_vars

\* prune_old_data(30) has just deleted the 40-day trip and its reading, and kept the
\* trip that is exactly 30 days old and the 10-day trip with their readings
C9_Witness ==
    /\ lastOp.op = "prune_old_data"
    /\ lastOp.arg = <<DefaultDaysToKeep>>
    /\ lastOp.ret = <<1, 1>>
    /\ ~lastOp.err
    /\ TripIdsIn(conn.db) = {2, 3}
    /\ {r.trip_id : r \in conn.db.readings} = {2, 3}
    /\ {a.trip_id : a \in conn.db.alerts} = {2, 3}

\* C10: over every sequence of add_or_get_vehicle calls, the calls with one vin all
\* return the same id, and exactly one vehicles row with that vin exists afterward.
C10_UpsertSameId ==
    \A vin \in Vins :
        returned[vin].calls > 0 =>
            \E v \in conn.db.vehicles :
                /\ v.vin = vin
                /\ returned[vin].ids = {v.id}
                /\ \A w \in conn.db.vehicles : w.vin = vin => w = v
                /\ v \in conn.disk.vehicles

\* a vin that was not in the store has been upserted more than once, and a vin that
\* was in the store has been upserted too
C10_Witness ==
    /\ returned[VinB].calls = 2
    /\ returned[VinB].ids = {UsedTables.seq.vehicles + 1}
    /\ returned[VinA].calls > 0

\* C12: every reading and every alert event of the Store, in the connection's view and
\* committed, references a trip row that exists.
C12_ReadingsReferenceTrips ==
    \A d \in {conn.db, conn.disk} :
        /\ \A r \in d.readings : r.trip_id \in TripIdsIn(d)
        /\ \A a \in d.alerts : a.trip_id \in TripIdsIn(d)

=============================================================================
